---- MODULE Spec2Model ----
(***************************************************************************)
(* Business-case report generator: the POST /api/generate-report handler   *)
(* (both the totalCost route and the projectTimelineYears route), its      *)
(* financial formulas, and the two export routes.                          *)
(*                                                                         *)
(* JavaScript numbers are modelled as exact rationals plus the three       *)
(* non-finite values NaN, Infinity and -Infinity; binary rounding error    *)
(* of IEEE doubles and the sign of zero are not modelled.                  *)
(***************************************************************************)
EXTENDS Integers, Sequences, FiniteSets, TLC

VARIABLES
    calcIn,          \* inputs handed to the projection functions
    calcRoute,       \* result of calculateFinancialProjections, <<>> before the call
    calcTimeline,    \* result of generateFinancialProjections, <<>> before the call
    calcRouteMetrics,    \* result of route.ts's calculateFinancialMetrics on calcRoute
    calcTimelineMetrics, \* result of the timeline route's calculateFinancialMetrics on calcTimeline
    calcSameRows,    \* result of the timeline route's calculateFinancialMetrics on calcRoute
    calcDone,        \* which of the functions have been applied
    variant,         \* which route serves the request: "totalCost" or "timeline"
    pc,              \* where the POST handler stands
    body,            \* the request: [json, data]
    projections,     \* const projections
    financialMetrics,\* const financialMetrics
    market,          \* the generateMarketAnalysis promise: [state, outcome, result]
    risk,            \* the generateRiskAnalysis promise: [state, outcome, result]
    final,           \* the outcome of the final completion, NoOutcome before it
    llmCalls,        \* the completions requested so far, in order
    llmTargets,      \* the client and model each of them was sent to
    response,        \* the response of POST /api/generate-report, NoResponse before it
    exportReq,       \* the last request to an export route
    exportResp,      \* its response
    formValues,      \* BusinessCaseForm: what getValues() returns
    autoSaveEnabled, \* const [autoSaveEnabled, setAutoSaveEnabled]
    autoSaveDeps,    \* the dependencies the auto-save effect last ran with, <<>> before the mount
    localStorage,    \* window.localStorage: the keys written and their texts
    reportData,      \* const [reportData, setReportData]
    isGenerating,    \* const [isGenerating, setIsGenerating]
    formError,       \* const [error, setError]
    pageLoads,       \* how many times the page has been loaded
    activeTab,       \* const [activeTab, setActiveTab]
    inFlight,        \* the fetches of onSubmit that have not settled
    lastEvent,       \* the handler or effect of the form that ran last
    handlers         \* two invocations of POST running together: the locals of each

calcVars == <<calcIn, calcRoute, calcTimeline, calcRouteMetrics, calcTimelineMetrics,
              calcSameRows, calcDone>>

postVars == <<variant, pc, body, projections, financialMetrics, market, risk, final,
              llmCalls, llmTargets, response>>

exportVars == <<exportReq, exportResp>>

formVars == <<formValues, autoSaveEnabled, autoSaveDeps, localStorage, reportData,
              isGenerating, formError, pageLoads, activeTab, inFlight, lastEvent>>

serverVars == <<calcVars, postVars, exportVars, handlers>>

vars == <<serverVars, formVars>>

-----------------------------------------------------------------------------
(* Bounds of the model and constants of the program *)

MaxCount == 3            \* initial customer counts 0..MaxCount
MaxArpu == 2             \* ARPU values 0..MaxArpu
ProjectionYears == 5     \* for (let year = 1; year <= 5; year++)
MonthsPerYear == 12      \* customers * arpu * 12
PercentBase == 100       \* growthRate / 100

GrowthRates == {0, 10, 50, 100}     \* growthRate, in percent
OpexValues == {0, 5, 10}            \* financials.opex
TimelineYears == {0, 1, 3, 5}       \* financials.projectTimelineYears
CapexValues == {0, 10, 100}         \* financials.capex
MaxLoads == 2            \* page loads of the form: the first visit and the reloads

-----------------------------------------------------------------------------
(* JavaScript numbers *)

Abs(i) == IF i < 0 THEN -i ELSE i

RECURSIVE GCD(_, _)
GCD(a, b) == IF b = 0 THEN a ELSE GCD(b, a % b)

NaN == [k |-> "nan", n |-> 0, d |-> 1]
PosInf == [k |-> "inf", n |-> 0, d |-> 1]
NegInf == [k |-> "ninf", n |-> 0, d |-> 1]

\* The finite number n/d (d # 0), in lowest terms with a positive denominator.
Frac(n, d) ==
    LET g == GCD(Abs(n), Abs(d))
        s == IF d < 0 THEN -1 ELSE 1
    IN  [k |-> "fin", n |-> s * (n \div g), d |-> s * (d \div g)]

Num(i) == [k |-> "fin", n |-> i, d |-> 1]

IsFinite(a) == a.k = "fin"

\* -1, 0 or 1: the sign of a number that is not NaN.
Sign(a) ==
    CASE a.k = "inf" -> 1
      [] a.k = "ninf" -> -1
      [] OTHER -> IF a.n > 0 THEN 1 ELSE IF a.n < 0 THEN -1 ELSE 0

Signed(s) == IF s > 0 THEN PosInf ELSE NegInf

\* a + b
Add(a, b) ==
    CASE a.k = "nan" \/ b.k = "nan" -> NaN
      [] a.k = "fin" /\ b.k = "fin" ->
            LET g == GCD(a.d, b.d)
            IN  Frac(a.n * (b.d \div g) + b.n * (a.d \div g), a.d * (b.d \div g))
      [] a.k = "fin" -> b
      [] b.k = "fin" -> a
      [] OTHER -> IF a.k = b.k THEN a ELSE NaN

\* -a
Neg(a) ==
    CASE a.k = "fin" -> [a EXCEPT !.n = -a.n]
      [] a.k = "inf" -> NegInf
      [] a.k = "ninf" -> PosInf
      [] OTHER -> NaN

\* a - b
Sub(a, b) == Add(a, Neg(b))

\* a * b
Mul(a, b) ==
    CASE a.k = "nan" \/ b.k = "nan" -> NaN
      [] a.k = "fin" /\ b.k = "fin" ->
            LET g1 == GCD(Abs(a.n), b.d)
                g2 == GCD(Abs(b.n), a.d)
            IN  Frac((a.n \div g1) * (b.n \div g2), (a.d \div g2) * (b.d \div g1))
      [] OTHER -> IF Sign(a) * Sign(b) = 0 THEN NaN ELSE Signed(Sign(a) * Sign(b))

\* a / b: a finite number over zero is an infinity, 0 / 0 is NaN.
Div(a, b) ==
    CASE a.k = "nan" \/ b.k = "nan" -> NaN
      [] a.k = "fin" /\ b.k = "fin" ->
            IF b.n = 0
            THEN IF a.n = 0 THEN NaN ELSE Signed(Sign(a))
            ELSE Mul(a, Frac(b.d, b.n))
      [] a.k = "fin" -> Num(0)
      [] b.k = "fin" -> Signed(Sign(a) * (IF Sign(b) < 0 THEN -1 ELSE 1))
      [] OTHER -> NaN

\* a > b; false when either is NaN.
Gt(a, b) ==
    CASE a.k = "nan" \/ b.k = "nan" -> FALSE
      [] a.k = "fin" /\ b.k = "fin" -> a.n * b.d > b.n * a.d
      [] OTHER -> a.k # b.k /\ (a.k = "inf" \/ b.k = "ninf")

\* a >= b; false when either is NaN.
Ge(a, b) == Gt(a, b) \/ (a.k # "nan" /\ a = b)

\* Truncation towards -Infinity (Math.floor), for comparison with Math.round.
MathRoundDown(a) == IF a.k = "fin" THEN Num(a.n \div a.d) ELSE a

\* Math.round: the nearest integer, halves rounded towards +Infinity.
MathRound(a) ==
    IF a.k = "fin"
    THEN Num((a.n \div a.d) + (IF 2 * (a.n % a.d) >= a.d THEN 1 ELSE 0))
    ELSE a

\* Math.ceil
MathCeil(a) ==
    IF a.k = "fin"
    THEN Num((a.n \div a.d) + (IF a.n % a.d = 0 THEN 0 ELSE 1))
    ELSE a

\* Math.pow(a, e) for an integer exponent e >= 0.
RECURSIVE MathPow(_, _)
MathPow(a, e) == IF e = 0 THEN Num(1) ELSE Mul(a, MathPow(a, e - 1))

OnePointOne == Frac(11, 10)

-----------------------------------------------------------------------------
(* calculateFinancialProjections, generate-report/route.ts *)

\* const revenue = customers * data.arpu * 12
RevenueOf(customers, arpu) == Mul(Mul(customers, arpu), Num(MonthsPerYear))

\* customers *= (1 + data.growthRate)
NextCustomersNoGrowth(customers, growthRate) == customers

NextCustomers(customers, growthRate) == Mul(customers, Add(Num(1), growthRate))

\* opex *= 1.1
NextOpexFlat(opex) == opex

NextOpex(opex) == Mul(opex, OnePointOne)

\* projections.push({ year, revenue: Math.round(revenue), ... })
ProjectionRow(year, customers, opex, arpu) ==
    [year |-> year,
     revenue |-> MathRound(RevenueOf(customers, arpu)),
     customers |-> MathRound(customers),
     opex |-> MathRound(opex)]

RECURSIVE ProjectionLoop(_, _, _, _, _)
ProjectionLoop(year, customers, opex, data, rows) ==
    IF year > ProjectionYears
    THEN rows
    ELSE ProjectionLoop(year + 1,
                        NextCustomers(customers, data.growthRate),
                        NextOpex(opex),
                        data,
                        Append(rows,
                               ProjectionRow(year, customers, opex, data.arpu)))

\* data: [initialCount, growthRate (already divided by 100), arpu, opex]
calculateFinancialProjections(data) ==
    ProjectionLoop(1, data.initialCount, data.opex, data, <<>>)

-----------------------------------------------------------------------------
(* generateFinancialProjections, the projectTimelineYears route *)

\* Math.round(initialCount * Math.pow(1 + growthRate / 100, year - 1))
TimelineCustomers(data, year) ==
    MathRound(Mul(data.customers.initialCount,
                  MathPow(Add(Num(1), Div(data.customers.growthRate, Num(PercentBase))),
                          year - 1)))

\* data.financials.opex * Math.pow(1.1, year - 1)
TimelineOpex(data, year) == Mul(data.financials.opex, MathPow(OnePointOne, year - 1))

TimelineRow(data, year) ==
    [year |-> year,
     revenue |-> Mul(Mul(TimelineCustomers(data, year), data.customers.arpu),
                     Num(MonthsPerYear)),
     customers |-> TimelineCustomers(data, year),
     opex |-> TimelineOpex(data, year)]

\* Rows for a fixed horizon of five years, whatever projectTimelineYears is.
generateFiveYearProjections(data) ==
    [year \in 1..ProjectionYears |-> TimelineRow(data, year)]

\* One row per year 1..projectTimelineYears; no row when that is below 1.
generateFinancialProjections(data) ==
    LET years == data.financials.projectTimelineYears
        last == IF years.k = "fin" /\ years.n >= years.d THEN years.n \div years.d ELSE 0
    IN  [year \in 1..last |-> TimelineRow(data, year)]

-----------------------------------------------------------------------------
(* calculateFinancialMetrics, generate-report/route.ts *)

IrrYears == 5       \* capex * 5 in the simplified IRR
LifespanYears == 3       \* avgCustomerLifespan

\* reduce((acc, cf, i) => acc + cf / Math.pow(1 + discountRate, i + firstExp), acc)
\* over cashFlows from position i on (positions count from 1 here, from 0 in the code).
RECURSIVE DiscountedSum(_, _, _, _)
DiscountedSum(cashFlows, i, firstExp, acc) ==
    IF i > Len(cashFlows)
    THEN acc
    ELSE DiscountedSum(cashFlows, i + 1, firstExp,
                       Add(acc, Div(cashFlows[i], MathPow(OnePointOne, i - 1 + firstExp))))

\* projections.reduce((acc, p) => acc + p.revenue, 0)
RECURSIVE TotalRevenue(_)
TotalRevenue(rows) ==
    IF rows = <<>>
    THEN Num(0)
    ELSE Add(TotalRevenue(SubSeq(rows, 1, Len(rows) - 1)),
             rows[Len(rows)].revenue)

\* projections.reduce((acc, p) => acc + p.opex, 0)
RECURSIVE TotalOpex(_)
TotalOpex(rows) ==
    IF rows = <<>>
    THEN Num(0)
    ELSE Add(TotalOpex(SubSeq(rows, 1, Len(rows) - 1)),
             rows[Len(rows)].opex)

\* projections.map(p => p.revenue - p.opex)
CashFlows(rows) ==
    [i \in 1..Len(rows) |-> Sub(rows[i].revenue, rows[i].opex)]

\* A payback loop that accepts a cumulative cash flow of exactly 0.
RECURSIVE RoutePaybackLoopGe(_, _, _)
RoutePaybackLoopGe(i, cumulativeCashFlow, rows) ==
    IF i > Len(rows)
    THEN Num(0)
    ELSE LET c == Add(cumulativeCashFlow, Sub(rows[i].revenue, rows[i].opex))
         IN  IF Gt(c, Num(0)) \/ c = Num(0) THEN Num(i)
             ELSE RoutePaybackLoopGe(i + 1, c, rows)

\* The payback loop of route.ts: the first year whose cumulative cash flow is > 0, else 0.
RECURSIVE RoutePaybackLoop(_, _, _)
RoutePaybackLoop(i, cumulativeCashFlow, rows) ==
    IF i > Len(rows)
    THEN Num(0)
    ELSE LET c == Add(cumulativeCashFlow, Sub(rows[i].revenue, rows[i].opex))
         IN  IF Gt(c, Num(0)) THEN Num(i) ELSE RoutePaybackLoop(i + 1, c, rows)

\* An NPV that discounts the initial investment as well (exponents from 1).
RouteNpvShifted(rows, capex) ==
    DiscountedSum(<<Neg(capex)>> \o CashFlows(rows), 1, 1, Num(0))

RouteNpv(rows, capex) ==
    DiscountedSum(<<Neg(capex)>> \o CashFlows(rows), 1, 0, Num(0))

RouteRoi(rows, capex) ==
    Mul(Div(Sub(Sub(TotalRevenue(rows), TotalOpex(rows)), capex), capex),
        Num(100))

RouteIrr(rows, capex) ==
    Mul(Div(Sub(Sub(TotalRevenue(rows), TotalOpex(rows)), capex),
            Mul(capex, Num(IrrYears))),
        Num(100))

calculateFinancialMetrics(rows, capex) ==
    [npv |-> MathRound(RouteNpv(rows, capex)),
     irr |-> MathRound(RouteIrr(rows, capex)),
     paybackPeriod |-> RoutePaybackLoop(1, Neg(capex), rows),
     roi |-> MathRound(RouteRoi(rows, capex))]

-----------------------------------------------------------------------------
(* calculateFinancialMetrics, the projectTimelineYears route *)

TimelineNpv(data, rows) ==
    DiscountedSum(CashFlows(rows), 1, 1, Neg(data.financials.capex))

TimelineRoi(data, rows) ==
    LET totalCosts == Add(data.financials.capex, TotalOpex(rows))
    IN  Mul(Div(Sub(TotalRevenue(rows), totalCosts), totalCosts), Num(100))

\* A payback loop with route.ts's rule: strictly positive, 0 when never reached.
RECURSIVE TimelinePaybackLikeRoute(_, _, _, _)
TimelinePaybackLikeRoute(i, cumulativeCashFlow, cashFlows, default) ==
    IF i > Len(cashFlows)
    THEN Num(0)
    ELSE LET c == Add(cumulativeCashFlow, cashFlows[i])
         IN  IF Gt(c, Num(0)) THEN Num(i)
             ELSE TimelinePaybackLikeRoute(i + 1, c, cashFlows, default)

\* The payback loop of the timeline route: the first year whose cumulative cash
\* flow is >= 0, else projectTimelineYears.
RECURSIVE TimelinePaybackLoop(_, _, _, _)
TimelinePaybackLoop(i, cumulativeCashFlow, cashFlows, default) ==
    IF i > Len(cashFlows)
    THEN default
    ELSE LET c == Add(cumulativeCashFlow, cashFlows[i])
         IN  IF Ge(c, Num(0)) THEN Num(i)
             ELSE TimelinePaybackLoop(i + 1, c, cashFlows, default)

\* Math.ceil((firstYearOpex + initialInvestment) / (arpu * 12))
TimelineBreakEven(data) ==
    MathCeil(Div(Add(data.financials.opex, data.financials.capex),
                 Mul(data.customers.arpu, Num(MonthsPerYear))))

\* (firstYearOpex * 0.3) / projections[0].customers
TimelineCac(data, rows) ==
    Div(Mul(data.financials.opex, Frac(3, 10)), rows[1].customers)

\* projections[0].customers is read: a TypeError when there is no row.
TimelineMetricsThrow(rows) == Len(rows) = 0

calculateFinancialMetricsTimeline(data, rows) ==
    [npv |-> TimelineNpv(data, rows),
     roi |-> TimelineRoi(data, rows),
     paybackPeriod |-> TimelinePaybackLoop(1, Neg(data.financials.capex),
                                           CashFlows(rows),
                                           data.financials.projectTimelineYears),
     breakEvenPoint |-> TimelineBreakEven(data),
     cac |-> TimelineCac(data, rows),
     clv |-> Mul(Mul(data.customers.arpu, Num(MonthsPerYear)), Num(LifespanYears)),
     grossMargin |-> [i \in 1..Len(rows) |->
                        Mul(Div(Sub(rows[i].revenue,
                                    Mul(rows[i].opex, Frac(3, 5))),
                                rows[i].revenue), Num(100))],
     operatingMargin |-> [i \in 1..Len(rows) |->
                        Mul(Div(Sub(rows[i].revenue, rows[i].opex),
                                rows[i].revenue), Num(100))],
     ebitda |-> [i \in 1..Len(rows) |->
                        Mul(Div(Sub(rows[i].revenue, rows[i].opex),
                                rows[i].revenue), Num(100))],
     workingCapital |-> [i \in 1..Len(rows) |->
                        Mul(rows[i].revenue, Frac(1, 5))]]

-----------------------------------------------------------------------------
(* JSON values: what JSON.parse returns and JSON.stringify writes *)

JStr(s) == [t |-> "string", v |-> s]
JNull == [t |-> "null", v |-> ""]
JNumber(a) == [t |-> "number", v |-> a]
JArr(elems) == [t |-> "array", v |-> elems]
JObj(fields) == [t |-> "object", v |-> fields]
EmptyObject == JObj(<<>>)

\* obj.key is neither undefined nor a TypeError: obj is an object holding key.
Has(obj, key) == obj.t = "object" /\ key \in DOMAIN obj.v

\* Reading a property of x throws a TypeError.
Nullish(x) == x.t \in {"undefined", "null"}

Undefined == [t |-> "undefined", v |-> ""]

\* obj.key for a value that is not nullish: undefined when absent.  Strings
\* and arrays have no properties of the names read here.
Get(obj, key) == IF Has(obj, key) THEN obj.v[key] ELSE Undefined

\* JSON.stringify of a number: NaN and the infinities are written as null.
StringifyNumber(a) == IF IsFinite(a) THEN JNumber(a) ELSE JNull

\* JSON.stringify of the projection rows.
StringifyProjections(rows) ==
    JArr([i \in 1..Len(rows) |->
            JObj([year |-> JNumber(Num(rows[i].year)),
                  revenue |-> StringifyNumber(rows[i].revenue),
                  customers |-> StringifyNumber(rows[i].customers),
                  opex |-> StringifyNumber(rows[i].opex)])])

\* JSON.stringify of a metrics record: numbers and lists of numbers.
StringifyMetrics(metrics) ==
    JObj([key \in DOMAIN metrics |->
            IF key \in {"grossMargin", "operatingMargin", "ebitda", "workingCapital"}
            THEN JArr([i \in 1..Len(metrics[key]) |-> StringifyNumber(metrics[key][i])])
            ELSE StringifyNumber(metrics[key])])

-----------------------------------------------------------------------------
(* Text of an LLM completion, as a sequence of tokens: an opening brace, a    *)
(* closing brace, brace-free prose, or one "key": value member of an object. *)

LB == [key |-> "{", val |-> ""]
RB == [key |-> "}", val |-> ""]
TXT == [key |-> "prose", val |-> ""]
Member(key, val) == [key |-> key, val |-> val]

IsMember(tok) == tok.key \notin {"{", "}", "prose"}

\* text.indexOf('{'): the first position holding '{', 0 when there is none
\* (positions count from 1 here; the code's -1 is 0).
IndexOf(text, tok) ==
    IF \E i \in 1..Len(text) : text[i] = tok
    THEN CHOOSE i \in 1..Len(text) :
            text[i] = tok /\ \A j \in 1..(i - 1) : text[j] # tok
    ELSE 0

\* text.lastIndexOf('}')
LastIndexOf(text, tok) ==
    IF \E i \in 1..Len(text) : text[i] = tok
    THEN CHOOSE i \in 1..Len(text) :
            text[i] = tok /\ \A j \in (i + 1)..Len(text) : text[j] # tok
    ELSE 0

Error(message) == [thrown |-> TRUE, message |-> message, value |-> Undefined]
Return(value) == [thrown |-> FALSE, message |-> "", value |-> value]

\* cleanJsonResponse: the text from the first '{' to the last '}'.
cleanJsonResponse(text) ==
    LET startIndex == IndexOf(text, LB)
        endIndex == LastIndexOf(text, RB)
    IN  IF startIndex = 0 \/ endIndex = 0
        THEN Error("No valid JSON object found in response")
        ELSE Return(SubSeq(text, startIndex, endIndex))

\* The value a member's text stands for.
MemberValue(tok) ==
    CASE tok.val = "string" -> JStr("llm text")
      [] tok.val = "escaped" -> JStr("llm text\\n")
      [] tok.val = "empty" -> JStr("")
      [] tok.val = "null" -> JNull
      [] tok.val = "array" -> JArr(<<JStr("llm element")>>)
      [] tok.val = "emptyarray" -> JArr(<<>>)
      [] tok.val = "rows" ->
            JArr(<<JObj([year |-> JNumber(Num(1)), revenue |-> JNumber(Num(999)),
                         customers |-> JNumber(Num(999)), opex |-> JNumber(Num(999))])>>)
      [] tok.val = "analysis" ->
            JObj([analysis |-> JStr("llm text"),
                  metrics |-> JObj([npv |-> JNumber(Num(999)), roi |-> JNumber(Num(999))])])
      [] tok.val = "analysisonly" -> JObj([analysis |-> JStr("llm text")])
      [] tok.val = "market" ->
            JObj([marketSize |-> JStr("llm rewrite"),
                  competitiveAnalysis |-> JStr("llm rewrite"),
                  marketTrends |-> JStr("llm rewrite")])
      [] tok.val = "risk" ->
            JObj([risks |-> JStr("llm rewrite"),
                  impactAssessment |-> JStr("llm rewrite"),
                  mitigationStrategies |-> JStr("llm rewrite")])
      [] tok.val = "timeline" ->
            JObj([phases |-> JArr(<<JObj([phase |-> JStr("llm text"),
                                          duration |-> JStr("llm text"),
                                          keyActivities |-> JStr("llm text"),
                                          deliverables |-> JStr("llm text")])>>),
                  criticalPath |-> JStr("llm text"),
                  keyMilestones |-> JStr("llm text")])
      [] tok.val = "nophases" ->
            JObj([criticalPath |-> JStr("llm text"), keyMilestones |-> JStr("llm text")])
      [] tok.val = "recommendations" ->
            JObj([strategic |-> JStr("llm text"),
                  operational |-> JStr("llm text"),
                  financial |-> JStr("llm text")])
      [] OTHER -> JObj(<<>>)

\* JSON.parse of text that cleanJsonResponse cut: an object when the text is
\* '{', members, '}' (the last member of a repeated key wins); a SyntaxError
\* otherwise.
JSONparse(text) ==
    LET inner == 2..(Len(text) - 1)
    IN  IF /\ Len(text) >= 2
           /\ text[1] = LB
           /\ text[Len(text)] = RB
           /\ \A i \in inner : IsMember(text[i])
        THEN Return(JObj([key \in {text[i].key : i \in inner} |->
                MemberValue(text[CHOOSE i \in inner :
                                   /\ text[i].key = key
                                   /\ \A j \in inner : text[j].key = key => j <= i])]))
        ELSE Error("Unexpected token in JSON")

\* JSON.parse(cleanJsonResponse(text))
ParseCleaned(text) ==
    LET cleaned == cleanJsonResponse(text)
    IN  IF cleaned.thrown THEN cleaned ELSE JSONparse(cleaned.value)

-----------------------------------------------------------------------------
(* The outcome of openai.chat.completions.create: the call rejects (ok is    *)
(* FALSE) or resolves with choices[0].message.content, <<>> for null or ''.  *)

\* lib/llm/config: the client and the model of a provider.
getLLMClient(provider) ==
    CASE provider = "gpt4" -> "openaiClient"
      [] provider = "deepseek" -> "deepseekClient"
      [] OTHER -> "openaiClient"

getLLMModel(provider) ==
    CASE provider = "gpt4" -> "gpt-4"
      [] provider = "deepseek" -> "deepseek-chat"
      [] OTHER -> "gpt-4"

\* A route that asks lib/llm/config for the client and model of a provider.
ProviderTarget(provider) ==
    [client |-> getLLMClient(provider), model |-> getLLMModel(provider)]

\* openai.chat.completions.create({model: 'gpt-4', ...}): the module's own
\* OpenAI client and a fixed model, in each of the three calls.
CompletionTarget == [client |-> "openaiClient", model |-> "gpt-4"]

Completion(ok, content) == [ok |-> ok, content |-> content]

RequestFailed == Completion(FALSE, <<>>)
EmptyContent == Completion(TRUE, <<>>)

\* generateMarketAnalysis: JSON.parse(cleanJsonResponse(content || '{}')), no try/catch.
generateMarketAnalysis(outcome) ==
    IF ~outcome.ok
    THEN Error("LLM request failed")
    ELSE ParseCleaned(IF outcome.content = <<>> THEN <<LB, RB>> ELSE outcome.content)

requiredFields ==
    {"risks", "impactAssessment", "mitigationStrategies", "contingencyPlans",
     "riskMonitoringApproach"}

\* String(value)
StringOf(j) ==
    CASE j.t = "string" -> j.v
      [] j.t = "null" -> "null"
      [] j.t = "array" -> "llm element"
      [] OTHER -> "[object Object]"

\* .replace(/\\n/g, '\n'): a backslash followed by n becomes a line break.
ReplaceEscapedNewlines(str) == IF str = "llm text\\n" THEN "llm text\n" ELSE str

\* The fallback of the inner catch (parseError).
ParseFallback == JObj([field \in requiredFields |-> JStr("structured fallback")])

\* The fallback of the outer catch (error).
BasicFallback == JObj([field \in requiredFields |-> JStr("basic fallback")])

\* The inner try of generateRiskAnalysis: clean, parse, validate, coerce.
RiskInnerTry(content) ==
    LET parsed == ParseCleaned(content)
    IN  IF parsed.thrown
        THEN parsed
        ELSE IF \E field \in requiredFields : ~Has(parsed.value, field)
             THEN Error("Missing required field")
             ELSE Return(JObj([field \in requiredFields |->
                     JStr(ReplaceEscapedNewlines(StringOf(parsed.value.v[field])))]))

\* catch (parseError): the structured fallback.
RiskParseCatchRethrow(completion) == completion

RiskParseCatch(completion) ==
    IF completion.thrown THEN Return(ParseFallback) ELSE completion

\* The outer try: the call, the empty-content check, the inner try/catch.
RiskOuterTry(outcome) ==
    IF ~outcome.ok
    THEN Error("LLM request failed")
    ELSE IF outcome.content = <<>>
         THEN Error("Empty response from OpenAI")
         ELSE RiskParseCatch(RiskInnerTry(outcome.content))

\* catch (error): the basic fallback.
RiskOuterCatchRethrow(completion) == completion

RiskOuterCatch(completion) ==
    IF completion.thrown THEN Return(BasicFallback) ELSE completion

generateRiskAnalysis(outcome) == RiskOuterCatch(RiskOuterTry(outcome))

-----------------------------------------------------------------------------
(* POST /api/generate-report *)

StringFields == {"projectName", "company", "country", "industry"}
CustomerFields == {"initialCount", "growthRate", "arpu"}
FinancialFields(route) ==
    IF route = "timeline"
    THEN {"projectTimelineYears", "capex", "opex"}
    ELSE {"totalCost", "capex", "opex"}

\* businessCaseSchema.parse(body): the types only, no range or length.
SchemaAccepts(route, data) ==
    /\ data.t = "object"
    /\ \A key \in StringFields : Get(data, key).t = "string"
    /\ Get(data, "financials").t = "object"
    /\ \A key \in FinancialFields(route) : Get(Get(data, "financials"), key).t = "number"
    /\ Get(data, "customers").t = "object"
    /\ \A key \in CustomerFields : Get(Get(data, "customers"), key).t = "number"

\* validatedData, with the numbers unwrapped.
Validated(route, data) ==
    [projectName |-> data.v.projectName.v,
     company |-> data.v.company.v,
     country |-> data.v.country.v,
     industry |-> data.v.industry.v,
     financials |-> [key \in FinancialFields(route) |-> data.v.financials.v[key].v],
     customers |-> [key \in CustomerFields |-> data.v.customers.v[key].v]]

\* The form's businessCaseSchema (zodResolver): lengths and ranges on top of the types.
FormSchemaAccepts(route, data) ==
    /\ SchemaAccepts(route, data)
    /\ LET d == Validated(route, data)
           AtLeast(x, i) == ~Gt(Num(i), x)
           AtMost(x, i) == ~Gt(x, Num(i))
       IN  /\ Len(d.projectName) >= 3
           /\ Len(d.company) >= 2 /\ Len(d.country) >= 2 /\ Len(d.industry) >= 2
           /\ AtLeast(d.financials.capex, 0) /\ AtLeast(d.financials.opex, 0)
           /\ IF route = "timeline"
              THEN /\ Get(data, "llmProvider") \in {JStr("gpt4"), JStr("deepseek")}
                   /\ AtLeast(d.financials.projectTimelineYears, 1)
                   /\ AtMost(d.financials.projectTimelineYears, 10)
              ELSE /\ AtLeast(d.financials.totalCost, 0)
                   /\ ~Gt(Add(d.financials.capex, d.financials.opex), d.financials.totalCost)
           /\ AtLeast(d.customers.initialCount, 1)
           /\ AtLeast(d.customers.growthRate, 0) /\ AtMost(d.customers.growthRate, 100)
           /\ AtLeast(d.customers.arpu, 0)

\* const rows = ...
ProjectionsOf(route, validatedData) ==
    IF route = "timeline"
    THEN generateFinancialProjections(validatedData)
    ELSE calculateFinancialProjections(
            [initialCount |-> validatedData.customers.initialCount,
             growthRate |-> Div(validatedData.customers.growthRate, Num(PercentBase)),
             arpu |-> validatedData.customers.arpu,
             opex |-> validatedData.financials.opex])

\* const metrics = ...
MetricsOf(route, validatedData, rows) ==
    IF route = "timeline"
    THEN IF TimelineMetricsThrow(rows)
         THEN Error("Cannot read properties of undefined (reading 'customers')")
         ELSE Return(calculateFinancialMetricsTimeline(validatedData, rows))
    ELSE Return(calculateFinancialMetrics(rows, validatedData.financials.capex))

\* !value
Falsy(j) ==
    \/ j.t \in {"undefined", "null"}
    \/ j.t = "string" /\ j.v = ""
    \/ j.t = "number" /\ j.v \in {Num(0), NaN}

\* obj with obj[key] = val
SetField(obj, key, val) ==
    JObj([k \in DOMAIN obj.v \cup {key} |-> IF k = key THEN val ELSE obj.v[k]])

\* parsedResult.financialAnalysis.metrics = metrics, then stringified:
\* a TypeError on undefined, null and (strict mode) on a primitive; on an array
\* the property is set but JSON.stringify writes the elements only.
AssignMetricsThrows(parsedResult) ==
    Get(parsedResult, "financialAnalysis").t \notin {"object", "array"}

AssignMetrics(parsedResult, metrics) ==
    LET financialAnalysis == Get(parsedResult, "financialAnalysis")
    IN  IF financialAnalysis.t = "object"
        THEN SetField(parsedResult, "financialAnalysis",
                      SetField(financialAnalysis, "metrics",
                               StringifyMetrics(metrics)))
        ELSE parsedResult

\* The four assignments of pre-calculated values and JSON.stringify(parsedResult).
StringifyReport(parsedResult, rows, metrics, marketAnalysis, riskAnalysis) ==
    SetField(SetField(AssignMetrics(SetField(parsedResult, "financialProjections",
                                             StringifyProjections(rows)),
                                    metrics),
                      "marketAnalysis", marketAnalysis),
             "riskAssessment", riskAnalysis)

JsonResponse(status, payload) ==
    [status |-> status, contentType |-> "application/json", disposition |-> "",
     body |-> payload]

\* The inner try of POST: clean, parse, validate, assign, respond.
FinalInnerTry(content, rows, metrics, marketAnalysis, riskAnalysis) ==
    LET parsed == ParseCleaned(content)
    IN  IF parsed.thrown
        THEN parsed
        ELSE IF \/ Falsy(Get(parsed.value, "executiveSummary"))
                \/ Get(parsed.value, "financialProjections").t # "array"
             THEN Error("Invalid report structure")
             ELSE IF AssignMetricsThrows(parsed.value)
                  THEN Error("Cannot set properties of undefined (setting 'metrics')")
                  ELSE Return(JsonResponse(200,
                          StringifyReport(parsed.value, rows, metrics,
                                          marketAnalysis, riskAnalysis)))

\* catch (parseError): rethrown as a new Error.
FinalParseCatch(completion) ==
    IF completion.thrown
    THEN Error("Failed to parse OpenAI response as JSON")
    ELSE completion

\* From the final completion to the end of the outer try.
FinalTry(outcome, rows, metrics, marketAnalysis, riskAnalysis) ==
    IF ~outcome.ok
    THEN Error("LLM request failed")
    ELSE IF outcome.content = <<>>
         THEN Error("No response from OpenAI")
         ELSE FinalParseCatch(FinalInnerTry(outcome.content, rows,
                                            metrics, marketAnalysis,
                                            riskAnalysis))

\* The response of the outer catch.
ErrorResponseNoDetails(message) ==
    JsonResponse(500, JObj([error |-> JStr("Failed to generate report")]))

ErrorResponse(message) ==
    JsonResponse(500, JObj([error |-> JStr("Failed to generate report"),
                            details |-> JStr(message)]))

\* What leaves the handler when an exception is not caught.
Uncaught(message) ==
    [status |-> 0, contentType |-> "", disposition |-> "", body |-> JStr(message)]

\* catch (error) of POST.
OuterCatchMissing(completion) ==
    IF completion.thrown THEN Uncaught(completion.message) ELSE completion.value

OuterCatch(completion) ==
    IF completion.thrown THEN ErrorResponse(completion.message) ELSE completion.value

-----------------------------------------------------------------------------
(* POST /api/export/pdf and POST /api/export/docx *)

\* value.toLocaleString() and value.member throw on undefined and null.
RowThrows(row) ==
    \/ Nullish(row)
    \/ \E key \in {"revenue", "customers", "opex"} : Nullish(Get(row, key))

\* The reads shared by the two routes that throw a TypeError.
ReportReadsThrow(data) ==
    \/ Nullish(data)
    \/ Get(data, "financialProjections").t # "array"
    \/ \E i \in DOMAIN Get(data, "financialProjections").v :
          RowThrows(Get(data, "financialProjections").v[i])
    \/ Nullish(Get(data, "marketAnalysis"))
    \/ Nullish(Get(data, "financialAnalysis"))
    \/ Nullish(Get(Get(data, "financialAnalysis"), "metrics"))
    \/ Nullish(Get(Get(Get(data, "financialAnalysis"), "metrics"), "npv"))
    \/ Nullish(Get(data, "riskAssessment"))
    \/ Nullish(Get(data, "implementationTimeline"))
    \/ Get(Get(data, "implementationTimeline"), "phases").t # "array"
    \/ \E i \in DOMAIN Get(Get(data, "implementationTimeline"), "phases").v :
          Nullish(Get(Get(data, "implementationTimeline"), "phases").v[i])
    \/ Nullish(Get(data, "recommendations"))

PdfThrows(data) == ReportReadsThrow(data)

\* docx also reads financialProjections[0] and financialProjections[length - 1].
DocxThrows(data) ==
    \/ ReportReadsThrow(data)
    \/ Get(data, "financialProjections").v = <<>>

Attachment(contentType, filename) ==
    [status |-> 200, contentType |-> contentType,
     disposition |-> filename, content |-> [t |-> "binary", v |-> ""]]

\* NextResponse.json({ error: ... }, { status: 500 })
ExportErrorWithDetails(error) ==
    JsonResponse(500, JObj([error |-> JStr(error), details |-> JStr("error message")]))

ExportError(error) == JsonResponse(500, JObj([error |-> JStr(error)]))

\* A request to an export route: req.json() rejects when json is FALSE.
ExportPdf(req) ==
    IF ~req.json \/ PdfThrows(req.data)
    THEN ExportError("Failed to generate PDF")
    ELSE Attachment("application/pdf", "attachment; filename=business-case-report.pdf")

ExportDocx(req) ==
    IF ~req.json \/ DocxThrows(req.data)
    THEN ExportError("Failed to generate DOCX")
    ELSE Attachment("application/vnd.openxmlformats-officedocument.wordprocessingml.document",
                    "attachment; filename=business-case-report.docx")

-----------------------------------------------------------------------------
(* The projection and metric functions applied to bounded inputs *)

CalcInputs ==
    [initialCount : 0..MaxCount,
     growthRate : GrowthRates,
     arpu : 0..MaxArpu,
     opex : OpexValues,
     capex : CapexValues,
     years : TimelineYears]

\* The argument POST builds for calculateFinancialProjections.
RouteArgs(in) ==
    [initialCount |-> Num(in.initialCount),
     growthRate |-> Div(Num(in.growthRate), Num(PercentBase)),
     arpu |-> Num(in.arpu),
     opex |-> Num(in.opex)]

\* The validated content generateFinancialProjections and the timeline route's
\* calculateFinancialMetrics read.
TimelineArgs(in) ==
    [financials |-> [projectTimelineYears |-> Num(in.years), opex |-> Num(in.opex),
                     capex |-> Num(in.capex)],
     customers |-> [initialCount |-> Num(in.initialCount),
                    growthRate |-> Num(in.growthRate),
                    arpu |-> Num(in.arpu)]]

NotCalculated == Error("not calculated")

CalcInit ==
    /\ calcIn \in CalcInputs
    /\ calcRoute = <<>>
    /\ calcTimeline = <<>>
    /\ calcRouteMetrics = NotCalculated
    /\ calcTimelineMetrics = NotCalculated
    /\ calcSameRows = NotCalculated
    /\ calcDone = {}

\* route.ts: projections, then metrics on them.
CalcRoute ==
    /\ "route" \notin calcDone
    /\ calcRoute' = calculateFinancialProjections(RouteArgs(calcIn))
    /\ calcRouteMetrics' = MetricsOf("totalCost", TimelineArgs(calcIn), calcRoute')
    /\ calcDone' = calcDone \cup {"route"}
    /\ UNCHANGED <<calcIn, calcTimeline, calcTimelineMetrics, calcSameRows>>
    /\ UNCHANGED <<postVars, exportVars, formVars, handlers>>

\* The projectTimelineYears route: projections, then metrics on them.
CalcTimeline ==
    /\ "timeline" \notin calcDone
    /\ calcTimeline' = generateFinancialProjections(TimelineArgs(calcIn))
    /\ calcTimelineMetrics' = MetricsOf("timeline", TimelineArgs(calcIn), calcTimeline')
    /\ calcDone' = calcDone \cup {"timeline"}
    /\ UNCHANGED <<calcIn, calcRoute, calcRouteMetrics, calcSameRows>>
    /\ UNCHANGED <<postVars, exportVars, formVars, handlers>>

\* The timeline route's calculateFinancialMetrics applied to the rows that
\* route.ts's calculateFinancialMetrics was applied to.
CalcSameRows ==
    /\ "route" \in calcDone
    /\ "same" \notin calcDone
    /\ calcSameRows' = MetricsOf("timeline", TimelineArgs(calcIn), calcRoute)
    /\ calcDone' = calcDone \cup {"same"}
    /\ UNCHANGED <<calcIn, calcRoute, calcTimeline, calcRouteMetrics, calcTimelineMetrics>>
    /\ UNCHANGED <<postVars, exportVars, formVars, handlers>>

CalcNext == CalcRoute \/ CalcTimeline \/ CalcSameRows

-----------------------------------------------------------------------------
(* Requests and LLM outcomes the handler is run on *)

HandlerInputs ==
    {[initialCount |-> 2, growthRate |-> 50, arpu |-> 1, opex |-> 10, capex |-> 100, years |-> 3],
     [initialCount |-> 2, growthRate |-> 50, arpu |-> 1, opex |-> 10, capex |-> 0, years |-> 5],
     [initialCount |-> 0, growthRate |-> 0, arpu |-> 0, opex |-> 0, capex |-> 0, years |-> 1],
     [initialCount |-> 1, growthRate |-> 100, arpu |-> 2, opex |-> 5, capex |-> 100, years |-> 0]}

\* The JSON body a form posts: shape names the route the form was written for.
FormFields(shape, in) ==
    JObj([projectName |-> JStr("Project"),
          company |-> JStr("Company"),
          country |-> JStr("Country"),
          industry |-> JStr("Industry"),
          financials |->
             IF shape = "timeline"
             THEN JObj([projectTimelineYears |-> JNumber(Num(in.years)),
                        capex |-> JNumber(Num(in.capex)),
                        opex |-> JNumber(Num(in.opex))])
             ELSE JObj([totalCost |-> JNumber(Num(in.capex + in.opex)),
                        capex |-> JNumber(Num(in.capex)),
                        opex |-> JNumber(Num(in.opex))]),
          customers |-> JObj([initialCount |-> JNumber(Num(in.initialCount)),
                              growthRate |-> JNumber(Num(in.growthRate)),
                              arpu |-> JNumber(Num(in.arpu))])])

\* The timeline form also holds llmProvider, 'gpt4' by default.
MakeBody(shape, in) ==
    IF shape = "timeline"
    THEN SetField(FormFields(shape, in), "llmProvider", JStr("gpt4"))
    ELSE FormFields(shape, in)

Unreadable == [origin |-> "direct", json |-> FALSE, data |-> Undefined]

\* Numbers the form rejects and the route's schema accepts.
NegativeOpexInput ==
    [initialCount |-> 1, growthRate |-> 10, arpu |-> 1, opex |-> -5, capex |-> 10, years |-> 1]

TypicalInput == CHOOSE in \in HandlerInputs : in.capex = 100 /\ in.years = 3

\* Field values a user may have typed, or a client may post without the form.
BusinessCases(v) ==
    {MakeBody(v, in) : in \in HandlerInputs \cup {NegativeOpexInput}}
    \cup {SetField(MakeBody(v, TypicalInput), "projectName", JStr("P"))}
    \cup (IF v = "timeline"
          THEN {SetField(MakeBody(v, TypicalInput), "llmProvider", JStr("deepseek"))}
          ELSE {})

\* The requests that reach a route: posted by the form's onSubmit or directly.
Requests(v) ==
    {[origin |-> o, json |-> TRUE, data |-> d] : o \in {"form", "direct"}, d \in BusinessCases(v)}
    \cup {Unreadable,
          [origin |-> "direct", json |-> TRUE, data |-> EmptyObject],
          [origin |-> "direct", json |-> TRUE,
           data |-> SetField(MakeBody(v, TypicalInput), "company", JNumber(Num(7)))],
          [origin |-> "direct", json |-> TRUE,
           data |-> MakeBody(IF v = "timeline" THEN "totalCost" ELSE "timeline",
                             TypicalInput)]}

Object(members) == <<LB>> \o members \o <<RB>>

MarketMembers ==
    <<Member("marketSize", "string"), Member("competitiveAnalysis", "string"),
      Member("marketTrends", "string"), Member("growthOpportunities", "string"),
      Member("entryBarriers", "string")>>

RiskMembers ==
    <<Member("risks", "string"), Member("impactAssessment", "escaped"),
      Member("mitigationStrategies", "string"), Member("contingencyPlans", "string"),
      Member("riskMonitoringApproach", "string")>>

ReportMembers ==
    <<Member("executiveSummary", "string"), Member("financialProjections", "rows"),
      Member("marketAnalysis", "market"), Member("financialAnalysis", "analysis"),
      Member("riskAssessment", "risk"), Member("implementationTimeline", "timeline"),
      Member("recommendations", "recommendations")>>

\* seq with the member of this key dropped, or replaced by Member(key, val).
Without(members, key) == SelectSeq(members, LAMBDA tok : tok.key # key)
With(members, key, val) ==
    [i \in 1..Len(members) |->
        IF members[i].key = key THEN Member(key, val) ELSE members[i]]

NoJson == Completion(TRUE, <<TXT>>)
Malformed(members) == Completion(TRUE, <<LB>> \o members \o <<TXT, RB>>)
Good(members) == Completion(TRUE, Object(members))
InProse(members) == Completion(TRUE, <<TXT>> \o Object(members) \o <<TXT>>)

MarketOutcomes ==
    {RequestFailed, EmptyContent, NoJson, Malformed(MarketMembers),
     Good(MarketMembers), InProse(MarketMembers)}

RiskOutcomes ==
    {RequestFailed, EmptyContent, NoJson, Malformed(RiskMembers),
     Good(RiskMembers), Good(Without(RiskMembers, "contingencyPlans"))}

FinalOutcomes ==
    {RequestFailed, EmptyContent, NoJson, Malformed(ReportMembers),
     Good(ReportMembers), InProse(ReportMembers),
     Good(With(ReportMembers, "executiveSummary", "empty")),
     Good(With(ReportMembers, "financialProjections", "string")),
     Good(Without(ReportMembers, "financialAnalysis")),
     Good(With(ReportMembers, "financialAnalysis", "string")),
     Good(With(ReportMembers, "financialAnalysis", "emptyarray")),
     Good(Without(ReportMembers, "implementationTimeline")),
     Good(With(ReportMembers, "implementationTimeline", "nophases")),
     Good(Without(ReportMembers, "recommendations"))}

\* The content is not one well-formed JSON object, with or without prose around it.
MalformedJson(outcome) ==
    outcome.ok /\ outcome.content # <<>> /\ ParseCleaned(outcome.content).thrown

-----------------------------------------------------------------------------
(* The handler of POST /api/generate-report, one step per await *)

NoOutcome == Completion(FALSE, <<TXT, TXT>>)
NoResponse == [status |-> -1, contentType |-> "", disposition |-> "", body |-> Undefined]
NotStarted == [state |-> "notstarted", outcome |-> NoOutcome, result |-> Undefined]
NoProjections == <<>>
NoMetrics == <<>>
NoRequest == [origin |-> "none", json |-> FALSE, data |-> Undefined]

PostInit ==
    /\ variant = "totalCost"
    /\ pc = "idle"
    /\ body = NoRequest
    /\ projections = NoProjections
    /\ financialMetrics = NoMetrics
    /\ market = NotStarted
    /\ risk = NotStarted
    /\ final = NoOutcome
    /\ llmCalls = <<>>
    /\ llmTargets = <<>>
    /\ response = NoResponse

ExportInit ==
    /\ exportReq = [format |-> "none", json |-> FALSE, data |-> Undefined]
    /\ exportResp = NoResponse

\* A request arrives at one of the two routes; handleSubmit calls onSubmit, which
\* posts the form values, only when the form's schema accepts them.
Receive(v, req) ==
    /\ pc = "idle"
    /\ req.origin = "form" => FormSchemaAccepts(v, req.data)
    /\ variant' = v
    /\ body' = req
    /\ pc' = "readBody"
    /\ UNCHANGED <<projections, financialMetrics, market, risk, final, llmCalls,
                   llmTargets,
                   response, calcVars, exportVars, formVars, handlers>>

\* await req.json(), businessCaseSchema.parse, the projections and the metrics:
\* the completion of the lines up to Promise.all.
BeforeAnalyses(v, req) ==
    IF ~req.json
    THEN Error("Unexpected end of JSON input")
    ELSE IF ~SchemaAccepts(v, req.data)
         THEN Error("ZodError")
         ELSE MetricsOf(v, Validated(v, req.data),
                        ProjectionsOf(v, Validated(v, req.data)))

\* req.json() settles; on success the handler runs to Promise.all, where both
\* analyses have requested their completion.
ReadBody ==
    /\ pc = "readBody"
    /\ LET before == BeforeAnalyses(variant, body)
       IN  IF before.thrown
           THEN /\ response' = OuterCatch(before)
                /\ pc' = "done"
                /\ UNCHANGED <<projections, financialMetrics, market, risk, llmCalls,
                             llmTargets>>
           ELSE /\ projections' = ProjectionsOf(variant, Validated(variant, body.data))
                /\ financialMetrics' = before.value
                /\ market' = [NotStarted EXCEPT !.state = "pending"]
                /\ risk' = [NotStarted EXCEPT !.state = "pending"]
                /\ llmCalls' = <<"market", "risk">>
                /\ llmTargets' = <<CompletionTarget, CompletionTarget>>
                /\ pc' = "awaitAnalyses"
                /\ UNCHANGED response
    /\ UNCHANGED <<variant, body, final, calcVars, exportVars, formVars, handlers>>

Settled(outcome, completion) ==
    [state |-> IF completion.thrown THEN "rejected" ELSE "fulfilled",
     outcome |-> outcome,
     result |-> IF completion.thrown THEN JStr(completion.message) ELSE completion.value]

\* The market completion settles and generateMarketAnalysis runs to its end.
MarketReply(outcome) ==
    /\ market.state = "pending"
    /\ market' = Settled(outcome, generateMarketAnalysis(outcome))
    /\ UNCHANGED <<variant, pc, body, projections, financialMetrics, risk, final,
                   llmCalls, llmTargets, response, calcVars, exportVars, formVars, handlers>>

\* The risk completion settles and generateRiskAnalysis runs to its end.
RiskReply(outcome) ==
    /\ risk.state = "pending"
    /\ risk' = Settled(outcome, generateRiskAnalysis(outcome))
    /\ UNCHANGED <<variant, pc, body, projections, financialMetrics, market, final,
                   llmCalls, llmTargets, response, calcVars, exportVars, formVars, handlers>>

\* A handler that requests the final completion as soon as the market analysis
\* has fulfilled, without waiting for the risk analysis.
AnalysesSettledEarly ==
    /\ pc = "awaitAnalyses"
    /\ market.state = "fulfilled"
    /\ llmCalls' = Append(llmCalls, "final")
    /\ llmTargets' = Append(llmTargets, CompletionTarget)
    /\ pc' = "awaitFinal"
    /\ UNCHANGED <<variant, body, projections, financialMetrics, market, risk, final,
                   response, calcVars, exportVars, formVars, handlers>>

\* await Promise.all([...]): rejects as soon as one promise has rejected,
\* resolves when both have fulfilled; then the final completion is requested.
AnalysesSettled ==
    /\ pc = "awaitAnalyses"
    /\ \/ /\ "rejected" \in {market.state, risk.state}
          /\ response' = OuterCatch(Error(IF market.state = "rejected"
                                          THEN market.result.v ELSE risk.result.v))
          /\ pc' = "done"
          /\ UNCHANGED <<llmCalls, llmTargets>>
       \/ /\ market.state = "fulfilled" /\ risk.state = "fulfilled"
          /\ llmCalls' = Append(llmCalls, "final")
          /\ llmTargets' = Append(llmTargets, CompletionTarget)
          /\ pc' = "awaitFinal"
          /\ UNCHANGED response
    /\ UNCHANGED <<variant, body, projections, financialMetrics, market, risk, final,
                   calcVars, exportVars, formVars, handlers>>

\* The final completion settles and the handler runs to its response.
FinalReply(outcome) ==
    /\ pc = "awaitFinal"
    /\ final' = outcome
    /\ response' = OuterCatch(FinalTry(outcome, projections, financialMetrics,
                                       market.result, risk.result))
    /\ pc' = "done"
    /\ UNCHANGED <<variant, body, projections, financialMetrics, market, risk,
                   llmCalls, llmTargets, calcVars, exportVars, formVars, handlers>>

\* The client posts JSON to an export route: the report it received, or
\* something else.
ExportRequests ==
    {[json |-> FALSE, data |-> Undefined], [json |-> TRUE, data |-> EmptyObject]}
    \cup (IF response.status = 200 THEN {[json |-> TRUE, data |-> response.body]} ELSE {})

Export(format, req) ==
    /\ pc = "done"
    /\ exportReq' = [format |-> format, json |-> req.json, data |-> req.data]
    /\ exportResp' = IF format = "pdf" THEN ExportPdf(req) ELSE ExportDocx(req)
    /\ UNCHANGED <<postVars, calcVars, formVars, handlers>>

\* The request and everything that belonged to it is over.
Finish ==
    /\ pc = "done"
    /\ risk.state # "pending"
    /\ variant' = "totalCost"
    /\ pc' = "idle"
    /\ body' = NoRequest
    /\ projections' = NoProjections
    /\ financialMetrics' = NoMetrics
    /\ market' = NotStarted
    /\ risk' = NotStarted
    /\ final' = NoOutcome
    /\ llmCalls' = <<>>
    /\ llmTargets' = <<>>
    /\ response' = NoResponse
    /\ exportReq' = [format |-> "none", json |-> FALSE, data |-> Undefined]
    /\ exportResp' = NoResponse
    /\ UNCHANGED <<calcVars, formVars, handlers>>

PostNext ==
    \/ \E v \in {"totalCost", "timeline"} : \E req \in Requests(v) : Receive(v, req)
    \/ ReadBody
    \/ \E outcome \in MarketOutcomes : MarketReply(outcome)
    \/ \E outcome \in RiskOutcomes : RiskReply(outcome)
    \/ AnalysesSettled
    \/ \E outcome \in FinalOutcomes : FinalReply(outcome)
    \/ \E format \in {"pdf", "docx"} : \E req \in ExportRequests : Export(format, req)
    \/ Finish

-----------------------------------------------------------------------------
(* ReportPreview: the rows of data.financialProjections it reads by index *)

\* data.financialProjections[0] to [4], in costBreakdown and in the 5-Year Revenue card.
PreviewRowIndexes == 0..4

\* Reading .opex or .revenue of a row that is undefined throws a TypeError.
ReadsMissingRow(rows) == \E i \in PreviewRowIndexes : i + 1 > Len(rows.v)

-----------------------------------------------------------------------------
(* BusinessCaseForm: its state, its effects and window.localStorage *)

JBool(b) == [t |-> "boolean", v |-> b]

\* useForm's defaultValues; the registered text inputs hold undefined.
DefaultValues ==
    JObj([projectName |-> Undefined, company |-> Undefined,
          country |-> Undefined, industry |-> Undefined,
          financials |-> JObj([totalCost |-> JNumber(Num(0)), capex |-> JNumber(Num(0)),
                               opex |-> JNumber(Num(0))]),
          customers |-> JObj([initialCount |-> JNumber(Num(0)),
                              growthRate |-> JNumber(Num(0)),
                              arpu |-> JNumber(Num(0))])])

\* JSON.stringify of the form values: a member holding undefined is left out
\* and a number that is not finite is written as null.  A stored text is
\* modelled by the JSON value it encodes, which is what JSON.parse returns.
RECURSIVE JSONstringify(_)
JSONstringify(value) ==
    IF value.t = "object"
    THEN LET kept == {key \in DOMAIN value.v : value.v[key].t # "undefined"}
         IN  JObj([key \in kept |-> JSONstringify(value.v[key])])
    ELSE IF value.t = "number" THEN StringifyNumber(value.v) ELSE value

\* reset(values): the form holds the given values, a registered text input
\* they do not name holds undefined.
reset(values) ==
    JObj([key \in DOMAIN values.v \cup StringFields |-> Get(values, key)])

\* localStorage.getItem returns null for a key that was never written.
NoItem == [t |-> "noitem", v |-> ""]
getItem(storage, key) == IF key \in DOMAIN storage THEN storage[key] ELSE NoItem

setItem(storage, key, text) ==
    [k \in DOMAIN storage \cup {key} |-> IF k = key THEN text ELSE storage[k]]

EmptyStorage == [k \in {} |-> NoItem]

NoReport == JNull
NoError == ""

\* What the user types into a text input, and the counts typed into a number input.
FormTexts == {"P", "Project"}
FormCounts == {0, 2}

\* Files handed to the import button: a saved form, one saved by the form that
\* has llmProvider, one with a negative opex, an empty object, and no JSON.
ImportedFiles ==
    {[json |-> TRUE, data |-> MakeBody("totalCost", TypicalInput)],
     [json |-> TRUE,
      data |-> SetField(MakeBody("totalCost", TypicalInput), "llmProvider", JStr("gpt4"))],
     [json |-> TRUE, data |-> MakeBody("totalCost", NegativeOpexInput)],
     [json |-> TRUE, data |-> EmptyObject],
     [json |-> FALSE, data |-> Undefined]}

\* businessCaseSchema.parse returns the members the schema names.
SchemaParse(data) ==
    JObj([key \in StringFields \cup {"financials", "customers"} |-> Get(data, key)])

FormTabs == {"basic", "financials", "customers", "preview"}

\* What fetch('/api/generate-report') resolves with; Rejected when it rejects.
Rejected == [status |-> 0, contentType |-> "", disposition |-> "", body |-> Undefined]
FetchOutcomes ==
    {JsonResponse(200, JObj([executiveSummary |-> JStr("summary")])),
     ErrorResponse("Invalid response structure"),
     JsonResponse(500, JObj([error |-> JStr("Failed to generate report")])),
     Rejected}

\* The tabs whose content renders {error}: the preview alone.
ErrorTabs == {"preview"}

\* The state of the component at its first render; localStorage is the browser's.
Mounting ==
    /\ formValues = DefaultValues
    /\ autoSaveEnabled = TRUE
    /\ autoSaveDeps = <<>>
    /\ reportData = NoReport
    /\ isGenerating = FALSE
    /\ formError = NoError
    /\ activeTab = "basic"
    /\ inFlight = 0

FormInit ==
    /\ Mounting
    /\ localStorage = EmptyStorage
    /\ pageLoads = 1
    /\ lastEvent = "load"

\* The effects of a render have run: React runs them before the next event.
Quiescent == autoSaveDeps = <<autoSaveEnabled>>

\* useEffect(() => { if (autoSaveEnabled) localStorage.setItem('businessCaseFormData', ...) },
\*           [autoSaveEnabled, getValues]); getValues never changes.
AutoSave(storage) ==
    IF autoSaveEnabled
    THEN setItem(storage, "businessCaseFormData", JSONstringify(formValues))
    ELSE storage

\* The three effects of the first render, in the order they are declared.
MountEffects ==
    /\ autoSaveDeps = <<>>
    /\ LET saved == getItem(localStorage, "autoSaveEnabled")
           written == AutoSave(localStorage)
           savedData == getItem(written, "businessCaseFormData")
       IN  /\ autoSaveEnabled' = IF saved # NoItem THEN saved.v ELSE autoSaveEnabled
           /\ localStorage' = written
           /\ formValues' = IF savedData # NoItem THEN reset(savedData) ELSE formValues
    /\ autoSaveDeps' = <<autoSaveEnabled>>
    /\ lastEvent' = "mount"
    /\ UNCHANGED <<reportData, isGenerating, formError, pageLoads, activeTab, inFlight,
                   serverVars>>

\* A later render runs the auto-save effect when autoSaveEnabled has changed.
AutoSaveEffect ==
    /\ autoSaveDeps # <<>>
    /\ ~Quiescent
    /\ localStorage' = AutoSave(localStorage)
    /\ autoSaveDeps' = <<autoSaveEnabled>>
    /\ lastEvent' = "autoSave"
    /\ UNCHANGED <<formValues, autoSaveEnabled, reportData, isGenerating, formError,
                   pageLoads, activeTab, inFlight, serverVars>>

\* {...register(field)}: typing into a text input of the Basic Info tab.
ChangeText(field, text) ==
    /\ Quiescent
    /\ activeTab = "basic"
    /\ formValues' = SetField(formValues, field, JStr(text))
    /\ lastEvent' = "change"
    /\ UNCHANGED <<autoSaveEnabled, autoSaveDeps, localStorage, reportData, isGenerating,
                   formError, pageLoads, activeTab, inFlight, serverVars>>

\* onChange of a number input of the Customers tab:
\* setValue('customers.initialCount', Number(e.target.value)).
ChangeNumber(group, field, n) ==
    /\ Quiescent
    /\ activeTab = "customers"
    /\ formValues' = SetField(formValues, group,
                              SetField(formValues.v[group], field, JNumber(Num(n))))
    /\ lastEvent' = "change"
    /\ UNCHANGED <<autoSaveEnabled, autoSaveDeps, localStorage, reportData, isGenerating,
                   formError, pageLoads, activeTab, inFlight, serverVars>>

\* handleImportFormData that resets the form to whatever JSON the file holds.
ImportUnvalidated(file) ==
    /\ Quiescent
    /\ IF file.json
       THEN /\ formValues' = reset(file.data)
            /\ activeTab' = "basic"
            /\ formError' = NoError
            /\ lastEvent' = "imported"
       ELSE /\ formError' = "Invalid form data file. Please check the file format."
            /\ lastEvent' = "importRejected"
            /\ UNCHANGED <<formValues, activeTab>>
    /\ UNCHANGED <<autoSaveEnabled, autoSaveDeps, localStorage, reportData, isGenerating,
                   pageLoads, inFlight, serverVars>>

\* handleImportFormData, reader.onload.
ImportFormData(file) ==
    /\ Quiescent
    /\ IF file.json /\ FormSchemaAccepts("totalCost", file.data)
       THEN /\ formValues' = reset(SchemaParse(file.data))
            /\ activeTab' = "basic"
            /\ formError' = NoError
            /\ lastEvent' = "imported"
       ELSE /\ formError' = "Invalid form data file. Please check the file format."
            /\ lastEvent' = "importRejected"
            /\ UNCHANGED <<formValues, activeTab>>
    /\ UNCHANGED <<autoSaveEnabled, autoSaveDeps, localStorage, reportData, isGenerating,
                   pageLoads, inFlight, serverVars>>

\* The Switch's onCheckedChange.
ToggleAutoSave ==
    /\ Quiescent
    /\ LET checked == ~autoSaveEnabled
       IN  /\ autoSaveEnabled' = checked
           /\ localStorage' = setItem(localStorage, "autoSaveEnabled", JBool(checked))
    /\ lastEvent' = "toggle"
    /\ UNCHANGED <<formValues, autoSaveDeps, reportData, isGenerating, formError, pageLoads,
                   activeTab, inFlight, serverVars>>

\* <Tabs value={activeTab} onValueChange={setActiveTab}>: a click on a tab
\* trigger; the Preview trigger is disabled while there is no report.
SelectTab(tab) ==
    /\ Quiescent
    /\ tab # activeTab
    /\ tab = "preview" => reportData # NoReport
    /\ activeTab' = tab
    /\ lastEvent' = "tab"
    /\ UNCHANGED <<formValues, autoSaveEnabled, autoSaveDeps, localStorage, reportData,
                   isGenerating, formError, pageLoads, inFlight, serverVars>>

\* The Previous button, disabled on the first tab and on the preview.
PreviousTab ==
    /\ Quiescent
    /\ activeTab \notin {"basic", "preview"}
    /\ activeTab' = IF activeTab = "basic" THEN "basic"
                    ELSE IF activeTab = "financials" THEN "basic"
                    ELSE IF activeTab = "customers" THEN "financials"
                    ELSE "customers"
    /\ lastEvent' = "previous"
    /\ UNCHANGED <<formValues, autoSaveEnabled, autoSaveDeps, localStorage, reportData,
                   isGenerating, formError, pageLoads, inFlight, serverVars>>

\* The Next button, rendered on every tab but the preview.
NextTab ==
    /\ Quiescent
    /\ activeTab # "preview"
    /\ activeTab' = IF activeTab = "basic" THEN "financials"
                    ELSE IF activeTab = "financials" THEN "customers"
                    ELSE "preview"
    /\ lastEvent' = "next"
    /\ UNCHANGED <<formValues, autoSaveEnabled, autoSaveDeps, localStorage, reportData,
                   isGenerating, formError, pageLoads, inFlight, serverVars>>

\* A submit button that stays enabled while a report is being generated.
SubmitNeverDisabled ==
    /\ Quiescent
    /\ activeTab = "customers"
    /\ inFlight < 2
    /\ FormSchemaAccepts("totalCost", formValues)
    /\ isGenerating' = TRUE
    /\ formError' = NoError
    /\ inFlight' = inFlight + 1
    /\ lastEvent' = "submit"
    /\ UNCHANGED <<formValues, autoSaveEnabled, autoSaveDeps, localStorage, reportData,
                   pageLoads, activeTab, serverVars>>

\* The Generate Report button of the Customers tab, disabled while isGenerating:
\* handleSubmit(onSubmit) up to the fetch; the resolver lets valid values through.
Submit ==
    /\ Quiescent
    /\ activeTab = "customers"
    /\ ~isGenerating
    /\ FormSchemaAccepts("totalCost", formValues)
    /\ isGenerating' = TRUE
    /\ formError' = NoError
    /\ inFlight' = inFlight + 1
    /\ lastEvent' = "submit"
    /\ UNCHANGED <<formValues, autoSaveEnabled, autoSaveDeps, localStorage, reportData,
                   pageLoads, activeTab, serverVars>>

\* onSubmit after the fetch, had it also kept the report in local storage.
FetchReplyPersisting(fetched) ==
    /\ Quiescent
    /\ inFlight > 0
    /\ IF fetched = Rejected
       THEN /\ formError' = "Failed to fetch"
            /\ lastEvent' = "failed"
            /\ UNCHANGED <<reportData, activeTab, localStorage>>
       ELSE IF fetched.status \in 200..299
       THEN /\ reportData' = fetched.body
            /\ activeTab' = "preview"
            /\ localStorage' = setItem(localStorage, "reportData", fetched.body)
            /\ lastEvent' = "generated"
            /\ UNCHANGED formError
       ELSE /\ formError' = IF Falsy(Get(fetched.body, "details"))
                            THEN "Failed to generate report"
                            ELSE Get(fetched.body, "details").v
            /\ lastEvent' = "failed"
            /\ UNCHANGED <<reportData, activeTab, localStorage>>
    /\ isGenerating' = FALSE
    /\ inFlight' = inFlight - 1
    /\ UNCHANGED <<formValues, autoSaveEnabled, autoSaveDeps, pageLoads, serverVars>>

\* onSubmit after the fetch.
FetchReply(fetched) ==
    /\ Quiescent
    /\ inFlight > 0
    /\ IF fetched = Rejected
       THEN /\ formError' = "Failed to fetch"
            /\ lastEvent' = "failed"
            /\ UNCHANGED <<reportData, activeTab>>
       ELSE IF fetched.status \in 200..299
       THEN /\ reportData' = fetched.body
            /\ activeTab' = "preview"
            /\ lastEvent' = "generated"
            /\ UNCHANGED formError
       ELSE /\ formError' = IF Falsy(Get(fetched.body, "details"))
                            THEN "Failed to generate report"
                            ELSE Get(fetched.body, "details").v
            /\ lastEvent' = "failed"
            /\ UNCHANGED <<reportData, activeTab>>
    /\ isGenerating' = FALSE
    /\ inFlight' = inFlight - 1
    /\ UNCHANGED <<formValues, autoSaveEnabled, autoSaveDeps, localStorage, pageLoads,
                   serverVars>>

\* The browser reloads the page: the component is built anew, its fetches are
\* dropped, localStorage stays.
Reload ==
    /\ pageLoads < MaxLoads
    /\ pageLoads' = pageLoads + 1
    /\ formValues' = DefaultValues
    /\ autoSaveEnabled' = TRUE
    /\ autoSaveDeps' = <<>>
    /\ reportData' = NoReport
    /\ isGenerating' = FALSE
    /\ formError' = NoError
    /\ activeTab' = "basic"
    /\ inFlight' = 0
    /\ lastEvent' = "load"
    /\ UNCHANGED <<localStorage, serverVars>>

FormNext ==
    \/ MountEffects
    \/ AutoSaveEffect
    \/ \E field \in {"projectName"} : \E text \in FormTexts : ChangeText(field, text)
    \/ \E n \in FormCounts : ChangeNumber("customers", "initialCount", n)
    \/ \E file \in ImportedFiles : ImportFormData(file)
    \/ ToggleAutoSave
    \/ \E tab \in FormTabs : SelectTab(tab)
    \/ PreviousTab
    \/ NextTab
    \/ Submit
    \/ \E fetched \in FetchOutcomes : FetchReply(fetched)
    \/ Reload

-----------------------------------------------------------------------------
(* Two invocations of POST /api/generate-report (route.ts) running together. *)
(* The module keeps the openai client and the schema, both never assigned;   *)
(* everything else is a const of the invocation.                              *)

Invocations == {1, 2}

IdleHandler ==
    [pc |-> "idle", body |-> NoRequest, projections |-> NoProjections,
     financialMetrics |-> NoMetrics, marketAnalysis |-> Undefined,
     riskAnalysis |-> Undefined, response |-> NoResponse]

ConcInit == handlers = [r \in Invocations |-> IdleHandler]

ConcRequests ==
    {[origin |-> "direct", json |-> TRUE, data |-> MakeBody("totalCost", in)] :
        in \in {TypicalInput, NegativeOpexInput}}
    \cup {Unreadable}

ConcFinalOutcomes ==
    {RequestFailed, Good(ReportMembers),
     Good(With(ReportMembers, "financialAnalysis", "emptyarray"))}

ConcReceive(r, req) ==
    /\ handlers[r].pc = "idle"
    /\ handlers' = [handlers EXCEPT ![r] = [IdleHandler EXCEPT !.pc = "readBody", !.body = req]]
    /\ UNCHANGED <<calcVars, postVars, exportVars, formVars>>

\* const body, validatedData, projections, financialMetrics: lines 251 to 263.
ConcReadBody(r) ==
    /\ handlers[r].pc = "readBody"
    /\ LET h == handlers[r]
           before == BeforeAnalyses("totalCost", h.body)
       IN  handlers' = [handlers EXCEPT ![r] =
              IF before.thrown
              THEN [h EXCEPT !.pc = "done", !.response = OuterCatch(before)]
              ELSE [h EXCEPT !.pc = "awaitAnalyses",
                             !.projections =
                                 ProjectionsOf("totalCost", Validated("totalCost", h.body.data)),
                             !.financialMetrics = before.value]]
    /\ UNCHANGED <<calcVars, postVars, exportVars, formVars>>

\* await Promise.all([generateMarketAnalysis(...), generateRiskAnalysis(...)]).
ConcAnalyses(r, marketOutcome, riskOutcome) ==
    /\ handlers[r].pc = "awaitAnalyses"
    /\ LET h == handlers[r]
           marketDone == generateMarketAnalysis(marketOutcome)
           riskDone == generateRiskAnalysis(riskOutcome)
       IN  handlers' = [handlers EXCEPT ![r] =
              IF marketDone.thrown
              THEN [h EXCEPT !.pc = "done", !.response = OuterCatch(marketDone)]
              ELSE IF riskDone.thrown
              THEN [h EXCEPT !.pc = "done", !.response = OuterCatch(riskDone)]
              ELSE [h EXCEPT !.pc = "awaitFinal",
                             !.marketAnalysis = marketDone.value,
                             !.riskAnalysis = riskDone.value]]
    /\ UNCHANGED <<calcVars, postVars, exportVars, formVars>>

\* The final completion settles and the invocation runs to its response.
ConcFinalReply(r, outcome) ==
    /\ handlers[r].pc = "awaitFinal"
    /\ LET h == handlers[r]
       IN  handlers' = [handlers EXCEPT ![r] =
              [h EXCEPT !.pc = "done",
                        !.response = OuterCatch(FinalTry(outcome, h.projections,
                                                         h.financialMetrics,
                                                         h.marketAnalysis,
                                                         h.riskAnalysis))]]
    /\ UNCHANGED <<calcVars, postVars, exportVars, formVars>>

ConcNext ==
    \/ \E r \in Invocations : \E req \in ConcRequests : ConcReceive(r, req)
    \/ \E r \in Invocations : ConcReadBody(r)
    \/ \E r \in Invocations :
          \E marketOutcome \in {RequestFailed, Good(MarketMembers)} :
             \E riskOutcome \in {RequestFailed, Good(RiskMembers)} :
                ConcAnalyses(r, marketOutcome, riskOutcome)
    \/ \E r \in Invocations : \E outcome \in ConcFinalOutcomes : ConcFinalReply(r, outcome)

-----------------------------------------------------------------------------
Init ==
    /\ CalcInit /\ PostInit /\ ExportInit /\ FormInit /\ ConcInit
    /\ calcIn = CHOOSE in \in CalcInputs : TRUE

Next == PostNext

Spec == Init /\ [][Next]_vars

InitCalc == CalcInit /\ PostInit /\ ExportInit /\ FormInit /\ ConcInit

NextCalc == CalcNext

SpecCalc == InitCalc /\ [][NextCalc]_vars

InitForm == Init

NextForm == FormNext

SpecForm == InitForm /\ [][NextForm]_vars

InitConc == Init

NextConc == ConcNext

SpecConc == InitConc /\ [][NextConc]_vars

-----------------------------------------------------------------------------
(* Claims about POST /api/generate-report and the export routes, under Spec *)

BodyAccepted == body.json /\ SchemaAccepts(variant, body.data)

MarketSettled == market.state \in {"fulfilled", "rejected"}
RiskSettled == risk.state \in {"fulfilled", "rejected"}
FinalSettled == final # NoOutcome

\* The parsed final output fails the handler's structure check, or has no
\* financialAnalysis to assign the metrics to.
InvalidStructure(outcome) ==
    /\ outcome.ok /\ outcome.content # <<>> /\ ~MalformedJson(outcome)
    /\ LET report == ParseCleaned(outcome.content).value
       IN  \/ ~Has(report, "executiveSummary")
           \/ report.v.executiveSummary = JStr("")
           \/ ~Has(report, "financialProjections")
           \/ report.v.financialProjections.t # "array"
           \/ ~Has(report, "financialAnalysis")
           \/ report.v.financialAnalysis.t \notin {"object", "array"}

\* The failures the handler does not absorb.
HandlerFailure ==
    \/ ~BodyAccepted
    \/ market.state = "rejected"
    \/ FinalSettled /\ (\/ ~final.ok
                        \/ final.content = <<>>
                        \/ MalformedJson(final)
                        \/ InvalidStructure(final))

ErrorAndDetails(resp) ==
    /\ resp.status = 500
    /\ resp.contentType = "application/json"
    /\ Has(resp.body, "error") /\ resp.body.v.error.t = "string"
    /\ Has(resp.body, "details") /\ resp.body.v.details.t = "string"

\* C1: every failure of POST /api/generate-report (unreadable body, schema
\* failure, failed market completion, failed or empty final completion, final
\* output that cannot be parsed or has an invalid structure) is answered with
\* status 500 and a JSON body holding error and details; the handler ends with a
\* response, never with an uncaught exception.
C1_FailuresAnswered ==
    /\ response.status # 0
    /\ pc = "done" => response.status \in {200, 500}
    /\ response.status = 500 => ErrorAndDetails(response)
    /\ pc = "done" /\ HandlerFailure => ErrorAndDetails(response)

\* The final output could not be parsed and the request ended with the error response.
C1_Witness ==
    /\ pc = "done"
    /\ FinalSettled /\ MalformedJson(final)
    /\ ErrorAndDetails(response)

\* C2: in every success response, financialProjections, financialAnalysis.metrics,
\* marketAnalysis and riskAssessment are the values the route computed or
\* fetched before the final completion (in their JSON encoding), whatever the
\* final output carried in those fields.
C2_PrecalculatedValuesReturned ==
    response.status = 200 =>
       /\ Get(response.body, "financialProjections") = StringifyProjections(projections)
       /\ Get(Get(response.body, "financialAnalysis"), "metrics")
             = StringifyMetrics(financialMetrics)
       /\ Get(response.body, "marketAnalysis") = market.result
       /\ Get(response.body, "riskAssessment") = risk.result

\* The risk completion failed, was empty, held no JSON object, held unparseable
\* JSON or lacked a required field.
RiskFailure(outcome) ==
    \/ ~outcome.ok
    \/ outcome.content = <<>>
    \/ IndexOf(outcome.content, LB) = 0
    \/ MalformedJson(outcome)
    \/ \E field \in requiredFields :
          \A i \in 1..Len(outcome.content) : outcome.content[i].key # field

FiveStrings(value) ==
    /\ value.t = "object"
    /\ DOMAIN value.v = requiredFields
    /\ \A field \in requiredFields : value.v[field].t = "string"

\* C3: generateRiskAnalysis never rejects; on every failure of the risk
\* completion it returns a hardcoded fallback record of the five string fields,
\* and such a failure alone never makes the request answer 500.
C3_RiskNeverRejects ==
    /\ risk.state # "rejected"
    /\ risk.state = "fulfilled" => FiveStrings(risk.result)
    /\ risk.state = "fulfilled" /\ RiskFailure(risk.outcome) =>
          risk.result \in {ParseFallback, BasicFallback}
    /\ pc = "done" /\ ~HandlerFailure /\ FinalSettled => response.status = 200

\* The risk request failed, the basic fallback went into a success response.
C3_Witness ==
    /\ pc = "done"
    /\ risk.state = "fulfilled" /\ ~risk.outcome.ok
    /\ risk.result = BasicFallback
    /\ response.status = 200
    /\ Get(response.body, "riskAssessment") = BasicFallback

\* C4 as stated: malformed JSON in any of the three LLM outputs is replaced
\* by a fallback and does not produce an error response.
C4_MalformedNeverErrors ==
    pc = "done" /\ BodyAccepted /\ MarketSettled
       /\ (\/ MalformedJson(market.outcome)
           \/ RiskSettled /\ MalformedJson(risk.outcome)
           \/ FinalSettled /\ MalformedJson(final))
       => response.status = 200

\* C4, amended: malformed JSON in the risk output is replaced by the hardcoded
\* fallback and produces no error response; malformed JSON in the market output
\* or in the final output is answered with the 500 {error, details} response.
C4_OnlyRiskFallsBack ==
    /\ RiskSettled /\ MalformedJson(risk.outcome) =>
          risk.state = "fulfilled" /\ risk.result = ParseFallback
    /\ pc = "done" /\ RiskSettled /\ MalformedJson(risk.outcome) /\ ~HandlerFailure
          /\ FinalSettled =>
             /\ response.status = 200
             /\ Get(response.body, "riskAssessment") = ParseFallback
    /\ pc = "done" /\ MarketSettled /\ MalformedJson(market.outcome) =>
          ErrorAndDetails(response)
    /\ pc = "done" /\ FinalSettled /\ MalformedJson(final) => ErrorAndDetails(response)

\* Malformed risk JSON, and the structured fallback in a success response.
C4_Witness ==
    /\ pc = "done"
    /\ RiskSettled /\ MalformedJson(risk.outcome)
    /\ response.status = 200
    /\ Get(response.body, "riskAssessment") = ParseFallback

ReportSections ==
    {"executiveSummary", "financialProjections", "marketAnalysis", "financialAnalysis",
     "riskAssessment", "implementationTimeline", "recommendations"}

\* C5: every success response holds all report sections, financialAnalysis
\* with metrics and implementationTimeline with a phases list.
C5_AllSectionsPresent ==
    response.status = 200 =>
       /\ \A section \in ReportSections : Has(response.body, section)
       /\ Has(Get(response.body, "financialAnalysis"), "metrics")
       /\ Get(Get(response.body, "implementationTimeline"), "phases").t = "array"

\* C6: an export route that is sent a report POST /api/generate-report returned
\* with success answers with an attachment, never with an error.
C6_ExportsAcceptReports ==
    exportReq.format # "none" /\ exportReq.json /\ response.status = 200
       /\ exportReq.data = response.body
       => exportResp.status = 200 /\ exportResp.disposition # ""

\* C7 as stated: an export route answers an exception with status 500 and a
\* JSON body holding error and details.
C7_ExportErrorHasDetails ==
    exportResp.status = 500 => ErrorAndDetails(exportResp)

\* C7, amended: an exception raised while reading the body or building the
\* document is answered with status 500 and a JSON body whose only field is error.
C7_ExportErrorBody ==
    /\ exportReq.format # "none" => exportResp.status \in {200, 500}
    /\ exportReq.format # "none"
          /\ (\/ ~exportReq.json
              \/ \E section \in ReportSections \ {"executiveSummary"} :
                    ~Has(exportReq.data, section))
          => exportResp.status = 500
    /\ exportResp.status = 500 =>
          /\ exportResp.contentType = "application/json"
          /\ exportResp.body.t = "object"
          /\ DOMAIN exportResp.body.v = {"error"}
          /\ exportResp.body.v.error.t = "string"

\* The body of an export request was unreadable and the route answered 500.
C7_Witness ==
    /\ exportReq.format = "docx"
    /\ ~exportReq.json
    /\ exportResp.status = 500
    /\ Has(exportResp.body, "error")

\* The form-validation constraints: every number non-negative, projectName of
\* at least 3 characters, company, country and industry of at least 2.
ConstraintsHold(route, data) ==
    /\ SchemaAccepts(route, data)
    /\ LET d == Validated(route, data)
       IN  /\ Len(d.projectName) >= 3
           /\ Len(d.company) >= 2 /\ Len(d.country) >= 2 /\ Len(d.industry) >= 2
           /\ \A key \in FinancialFields(route) : ~Gt(Num(0), d.financials[key])
           /\ \A key \in CustomerFields : ~Gt(Num(0), d.customers[key])

\* Projections have been computed or a completion has been requested.
GenerationRan == pc \in {"awaitAnalyses", "awaitFinal"} \/ llmCalls # <<>>

\* C16: report generation only runs on data that satisfies the form-validation
\* constraints: no projection is computed and no completion is requested for a
\* request that breaks one, whether the form or another client posted it.
C16_OnlyValidatedData ==
    GenerationRan => body.json /\ ConstraintsHold(variant, body.data)

\* C17: within one request the market and the risk completion are requested
\* together, before either is awaited; the final completion is requested only
\* after both analyses have finished and the market analysis has succeeded; no
\* completion is requested twice, so there are at most three LLM calls.
C17_CallOrder ==
    /\ llmCalls \in {<<>>, <<"market", "risk">>, <<"market", "risk", "final">>}
    /\ market.state # "notstarted" <=> llmCalls # <<>>
    /\ risk.state # "notstarted" <=> llmCalls # <<>>
    /\ pc = "awaitAnalyses" => llmCalls = <<"market", "risk">>
    /\ Len(llmCalls) = 3 => market.state = "fulfilled" /\ risk.state = "fulfilled"
    /\ pc = "awaitFinal" => Len(llmCalls) = 3
    /\ FinalSettled => Len(llmCalls) = 3
    /\ market.state = "rejected" => Len(llmCalls) <= 2 /\ ~FinalSettled

\* Both analyses have fulfilled and the third completion is in flight.
C17_Witness ==
    /\ pc = "awaitFinal"
    /\ llmCalls = <<"market", "risk", "final">>
    /\ market.state = "fulfilled" /\ risk.state = "fulfilled"
    /\ ~risk.outcome.ok

\* C18: the provider selected in the form determines the LLM used: every
\* completion of a request with llmProvider 'deepseek' goes to the Deepseek
\* client with model 'deepseek-chat', and with 'gpt4' to the OpenAI client with
\* model 'gpt-4'.
C18_ProviderDeterminesLLM ==
    body.json /\ Has(body.data, "llmProvider") =>
       \A i \in DOMAIN llmTargets :
          llmTargets[i] = ProviderTarget(body.data.v.llmProvider.v)

-----------------------------------------------------------------------------
(* Claims about the projection functions, checked under SpecCalc *)

\* c * (1 + g)^(n-1) with g = growthRate / 100, as an exact number.
CompoundCustomers(in, n) ==
    Mul(Num(in.initialCount), MathPow(Frac(PercentBase + in.growthRate, PercentBase), n - 1))

\* opex * 1.1^(n-1), as an exact number.
CompoundOpex(in, n) == Mul(Num(in.opex), MathPow(Frac(11, 10), n - 1))

C10_RevenueFromRowCustomers ==
    "route" \in calcDone =>
       \A n \in DOMAIN calcRoute :
          calcRoute[n].revenue =
             Mul(Mul(calcRoute[n].customers, Num(calcIn.arpu)), Num(MonthsPerYear))

\* C11: the projection rows follow the Customer Growth and OPEX Growth formulas
\* of the exported Financial Calculations table: the row of year Y has
\* customers = Initial Count * (1 + Growth Rate)^Y and
\* opex = Initial OPEX * 1.1^Y (each rounded as the rows are).
C11_TableDescribesRows ==
    "route" \in calcDone =>
       \A Y \in DOMAIN calcRoute :
          /\ calcRoute[Y].customers = MathRound(CompoundCustomers(calcIn, Y + 1))
          /\ calcRoute[Y].opex = MathRound(CompoundOpex(calcIn, Y + 1))

\* Sum over t = 1..n of (revenue_t - opex_t) / 1.1^t.
RECURSIVE DiscountedCashFlows(_, _)
DiscountedCashFlows(rows, n) ==
    IF n = 0
    THEN Num(0)
    ELSE Add(DiscountedCashFlows(rows, n - 1),
             Div(Sub(rows[n].revenue, rows[n].opex), MathPow(Frac(11, 10), n)))

\* -CAPEX + the discounted cash flows of all rows.
ClosedNpv(rows, capex) == Add(Neg(Num(capex)), DiscountedCashFlows(rows, Len(rows)))

\* C12: npv = -CAPEX + sum over t = 1..N of (revenue_t - opex_t) / 1.1^t, the
\* investment undiscounted; route.ts rounds it to an integer, the timeline
\* route returns it unrounded, and on the same rows the two implementations
\* compute the same value.
C12_NpvTenPercent ==
    /\ "route" \in calcDone =>
          calcRouteMetrics.value.npv = MathRound(ClosedNpv(calcRoute, calcIn.capex))
    /\ "timeline" \in calcDone /\ ~calcTimelineMetrics.thrown =>
          calcTimelineMetrics.value.npv = ClosedNpv(calcTimeline, calcIn.capex)
    /\ "same" \in calcDone =>
          /\ calcSameRows.value.npv = ClosedNpv(calcRoute, calcIn.capex)
          /\ MathRound(calcSameRows.value.npv) = calcRouteMetrics.value.npv

\* 3 customers growing by 50% at ARPU 2 with OPEX 5 and CAPEX 100: both
\* implementations applied to the five rows of route.ts give
\* 545.89..., which route.ts rounds to 546.
C12_Witness ==
    /\ calcDone = {"route", "timeline", "same"}
    /\ calcIn = [initialCount |-> 3, growthRate |-> 50, arpu |-> 2, opex |-> 5,
                 capex |-> 100, years |-> 5]
    /\ calcSameRows.value.npv = Frac(87916570, 161051)
    /\ calcRouteMetrics.value.npv = Num(546)

\* -CAPEX + sum over i = 1..n of (revenue_i - opex_i).
RECURSIVE CumulativeCashFlow(_, _, _)
CumulativeCashFlow(rows, capex, n) ==
    IF n = 0
    THEN Neg(Num(capex))
    ELSE Add(CumulativeCashFlow(rows, capex, n - 1), Sub(rows[n].revenue, rows[n].opex))

\* C13: paybackPeriod of route.ts's calculateFinancialMetrics is the first year
\* n in 1..5 whose cumulative cash flow is strictly greater than 0, and it is 0
\* exactly when no year's cumulative cash flow is positive.
C13_PaybackFirstPositiveYear ==
    "route" \in calcDone =>
       LET p == calcRouteMetrics.value.paybackPeriod
           Positive(n) == Gt(CumulativeCashFlow(calcRoute, calcIn.capex, n), Num(0))
       IN  /\ p \in {Num(n) : n \in 0..ProjectionYears}
           /\ p = Num(0) <=> \A n \in 1..ProjectionYears : ~Positive(n)
           /\ \A n \in 1..ProjectionYears :
                 p = Num(n) <=> (Positive(n) /\ \A m \in 1..(n - 1) : ~Positive(m))

\* CAPEX 100 with cash flows 67, 102, ...: -33 after year 1, 69 after year 2.
C13_Witness ==
    /\ "route" \in calcDone
    /\ calcIn = [initialCount |-> 3, growthRate |-> 50, arpu |-> 2, opex |-> 5,
                 capex |-> 100, years |-> 5]
    /\ CumulativeCashFlow(calcRoute, calcIn.capex, 1) = Num(-33)
    /\ CumulativeCashFlow(calcRoute, calcIn.capex, 2) = Num(69)
    /\ calcRouteMetrics.value.paybackPeriod = Num(2)

\* C14: the two calculateFinancialMetrics disagree on 5-year inputs. Whenever
\* route.ts reports paybackPeriod 0 (investment never recovered) the timeline
\* route reports a year in 1..5, and whenever CAPEX is 0 with a positive OPEX
\* route.ts's ROI is not a finite number while the timeline route's is; so for
\* the same CAPEX, OPEX, customer count, growth rate and ARPU the returned ROI
\* or paybackPeriod values differ.
C14_MetricsInconsistent ==
    {"route", "timeline"} \subseteq calcDone /\ calcIn.years = 5 =>
       LET r == calcRouteMetrics.value
           t == calcTimelineMetrics.value
       IN  /\ ~calcTimelineMetrics.thrown
           /\ r.paybackPeriod = Num(0) =>
                 /\ t.paybackPeriod \in {Num(n) : n \in 1..5}
                 /\ t.paybackPeriod # r.paybackPeriod
           /\ calcIn.capex = 0 /\ calcIn.opex > 0 =>
                 /\ ~IsFinite(r.roi)
                 /\ IsFinite(t.roi)

\* 3 customers at ARPU 0 with OPEX 5 and CAPEX 100 over 5 years: route.ts
\* returns ROI -131 and paybackPeriod 0, the timeline route ROI -100 and
\* paybackPeriod 5.
C14_Witness ==
    /\ {"route", "timeline"} \subseteq calcDone
    /\ calcIn = [initialCount |-> 3, growthRate |-> 50, arpu |-> 0, opex |-> 5,
                 capex |-> 100, years |-> 5]
    /\ calcRouteMetrics.value.roi = Num(-131)
    /\ calcTimelineMetrics.value.roi = Num(-100)
    /\ calcRouteMetrics.value.paybackPeriod = Num(0)
    /\ calcTimelineMetrics.value.paybackPeriod = Num(5)

\* The constraints of the form's schema on the numbers the projections read.
FormAccepts(in) ==
    /\ in.initialCount >= 1
    /\ in.growthRate \in 0..100
    /\ in.arpu >= 0 /\ in.capex >= 0 /\ in.opex >= 0
    /\ in.years \in 1..10

FiveRows(rows) ==
    /\ Len(rows) = 5
    /\ \A i \in 1..5 : rows[i].year = i

MarginLists == {"grossMargin", "operatingMargin", "ebitda", "workingCapital"}

\* Every member of a metrics record is a finite number, or a list of them.
AllFinite(metrics) ==
    \A key \in DOMAIN metrics :
       IF key \in MarginLists
       THEN \A i \in DOMAIN metrics[key] : IsFinite(metrics[key][i])
       ELSE IsFinite(metrics[key])

\* C27: for every input the form accepts, every metric that either
\* calculateFinancialMetrics returns is a finite number.
C27_MetricsFinite ==
    FormAccepts(calcIn) =>
       /\ "route" \in calcDone =>
             ~calcRouteMetrics.thrown /\ AllFinite(calcRouteMetrics.value)
       /\ "timeline" \in calcDone =>
             ~calcTimelineMetrics.thrown /\ AllFinite(calcTimelineMetrics.value)

\* C28: for every report produced from an input the form accepts, on either
\* route, the rows financialProjections[0] to financialProjections[4] that
\* ReportPreview reads are present.
C28_PreviewRowsPresent ==
    FormAccepts(calcIn) =>
       /\ "route" \in calcDone => ~ReadsMissingRow(StringifyProjections(calcRoute))
       /\ "timeline" \in calcDone => ~ReadsMissingRow(StringifyProjections(calcTimeline))

-----------------------------------------------------------------------------
(* Claims about BusinessCaseForm, checked under SpecForm *)

SavedFormData == getItem(localStorage, "businessCaseFormData")

\* C19: while auto-save is enabled, a change of a form field value is mirrored
\* to the local-storage entry 'businessCaseFormData': once the effects of the
\* change have run, nothing being left for the component to do, the entry
\* holds the current form values.
C19_AutoSaveMirrorsChanges ==
    (autoSaveEnabled /\ Quiescent) => SavedFormData = JSONstringify(formValues)

\* C22: with auto-save enabled, form data stored under 'businessCaseFormData'
\* survives a reload: the mount leaves the entry as it was and loads the
\* values it held before the mount into the form.
C22_StoredDataSurvivesReload ==
    [][(/\ autoSaveDeps = <<>> /\ autoSaveDeps' # <<>>
        /\ SavedFormData # NoItem
        /\ getItem(localStorage, "autoSaveEnabled") # JBool(FALSE))
          => /\ getItem(localStorage', "businessCaseFormData") = SavedFormData
             /\ formValues' = reset(SavedFormData)]_vars

StorageKeys == {"autoSaveEnabled", "businessCaseFormData"}

ReportStored == \E key \in DOMAIN localStorage : localStorage[key] = reportData

\* C20: the generated report lives only in component memory: the only keys
\* of local storage ever written are 'autoSaveEnabled' and
\* 'businessCaseFormData', no entry holds the report, a page that has just
\* been loaded holds no report, and reportData leaves null only when a
\* generation that was under way succeeds.
C20_ReportOnlyInMemory ==
    /\ [](/\ DOMAIN localStorage \subseteq StorageKeys
          /\ reportData # NoReport => ~ReportStored
          /\ autoSaveDeps = <<>> => reportData = NoReport)
    /\ [][(reportData = NoReport /\ reportData' # NoReport)
             => (isGenerating /\ ~isGenerating' /\ pageLoads' = pageLoads)]_vars

\* A report generated after a reload, with both keys written to local storage.
C20_Witness ==
    /\ pageLoads > 1
    /\ reportData # NoReport
    /\ DOMAIN localStorage = StorageKeys

\* C23: activeTab is 'preview' only if there is a report.
C23_PreviewOnlyWithReport == activeTab = "preview" => reportData # NoReport

C25_FailureShown ==
    lastEvent = "failed" => (formError # NoError /\ activeTab \in ErrorTabs)

\* C26: an import replaces the form values only with data that passes
\* businessCaseSchema, then shows the first tab and clears the error; a file
\* that is rejected sets the error and leaves the form values, the active tab
\* and the report alone.
C26_ImportOnlyValidData ==
    [][/\ lastEvent' = "imported" =>
             /\ FormSchemaAccepts("totalCost", formValues')
             /\ \E file \in ImportedFiles : formValues' = reset(SchemaParse(file.data))
             /\ activeTab' = "basic"
             /\ formError' = NoError
             /\ reportData' = reportData
       /\ lastEvent' = "importRejected" =>
             /\ formError' # NoError
             /\ formValues' = formValues
             /\ activeTab' = activeTab
             /\ reportData' = reportData]_vars

\* A valid file imported while the preview of a report was shown.
C26_Witness ==
    /\ lastEvent = "imported"
    /\ reportData # NoReport
    /\ activeTab = "basic"
    /\ formValues = reset(MakeBody("totalCost", TypicalInput))

-----------------------------------------------------------------------------
(* Claims about invocations of POST running together, checked under SpecConc *)

OwnBody(r) == Validated("totalCost", handlers[r].body.data)

\* The projections of every success response are those of the invocation's own body.
OwnProjectionsReturned ==
    \A r \in Invocations :
       handlers[r].response.status = 200 =>
          Get(handlers[r].response.body, "financialProjections")
             = StringifyProjections(ProjectionsOf("totalCost", OwnBody(r)))

\* C21: under every interleaving of two requests, the financialProjections and
\* the financialAnalysis.metrics of each success response are those computed
\* from that request's own body.
C21_RequestsDoNotInterfere ==
    \A r \in Invocations :
       handlers[r].response.status = 200 =>
          /\ Get(handlers[r].response.body, "financialProjections")
                = StringifyProjections(ProjectionsOf("totalCost", OwnBody(r)))
          /\ Get(Get(handlers[r].response.body, "financialAnalysis"), "metrics")
                = StringifyMetrics(MetricsOf("totalCost", OwnBody(r),
                                             ProjectionsOf("totalCost", OwnBody(r))).value)

====
